---- MODULE Spec2Model ----
(***************************************************************************)
(* Model of the preprocessing pipeline of solution.py: preprocess (NUL     *)
(* sanitisation, malformed-line scan), fix_bad_line (spillover repair) and *)
(* etl (preprocess, then upload).                                          *)
(*                                                                         *)
(* A file is a sequence of bytes.  A byte is one of the strings below; a   *)
(* text character is the same string.  The alphabet has no quote           *)
(* character, so the quoting rules of the csv module are never exercised.  *)
(***************************************************************************)
EXTENDS Integers, Sequences, FiniteSets, TLC

VARIABLES disk, tmp, fi, pc, fin, nread, malformed, length, wsrc, stages, loaded

vars == <<disk, tmp, fi, pc, fin, nread, malformed, length, wsrc, stages, loaded>>

(***************************************************************************)
(* Bounds                                                                  *)
(***************************************************************************)
MaxRows == 3
MaxBytes == 4
MaxPasses == 2

(***************************************************************************)
(* Bytes                                                                   *)
(***************************************************************************)
Comma == ","
LF == "LF"
CR == "CR"
NUL == "NUL"
BAD == "BAD"

Files == <<"marketing_data.csv", "user_data.csv">>

NFiles == Len(Files)

Last(s) == s[Len(s)]

Range(s) == {s[i] : i \in DOMAIN s}

(***************************************************************************)
(* File objects and the csv module                                         *)
(***************************************************************************)
RECURSIVE BinLinesFrom(_, _)
BinLinesFrom(b, cur) ==
    IF b = <<>> THEN (IF cur = <<>> THEN <<>> ELSE <<cur>>)
    ELSE IF Head(b) = LF THEN <<Append(cur, LF)>> \o BinLinesFrom(Tail(b), <<>>)
    ELSE BinLinesFrom(Tail(b), Append(cur, Head(b)))

\* iterating a file opened 'rb': the lines, each with its terminating LF
BinLines(b) == BinLinesFrom(b, <<>>)

RECURSIVE TextTranslate(_)
TextTranslate(b) ==
    IF b = <<>> THEN <<>>
    ELSE IF Head(b) = CR
         THEN IF Len(b) > 1 /\ b[2] = LF
              THEN <<LF>> \o TextTranslate(Tail(Tail(b)))
              ELSE <<LF>> \o TextTranslate(Tail(b))
         ELSE <<Head(b)>> \o TextTranslate(Tail(b))

\* iterating a file opened 'r': universal newlines, CRLF and CR read as LF
TextLines(b) == BinLines(TextTranslate(b))

StripFirstNul(line) ==
    IF \E i \in DOMAIN line : line[i] = NUL
    THEN LET i == CHOOSE j \in DOMAIN line :
                      line[j] = NUL /\ \A k \in 1..(j - 1) : line[k] # NUL
         IN  SubSeq(line, 1, i - 1) \o SubSeq(line, i + 1, Len(line))
    ELSE line

\* line.replace(b'\x00', b'')
StripNul(line) == SelectSeq(line, LAMBDA c : c # NUL)

\* .decode('utf-8') raises UnicodeDecodeError on a byte that is not UTF-8
Decodable(line) == \A i \in DOMAIN line : line[i] # BAD

RECURSIVE CsvRun(_, _, _, _)
CsvRun(s, state, fields, cur) ==
    IF s = <<>>
    THEN IF state \in {"START_FIELD", "IN_FIELD"}
         THEN [ok |-> TRUE, row |-> Append(fields, cur)]
         ELSE [ok |-> TRUE, row |-> fields]
    ELSE LET c == Head(s) IN
         CASE state = "EAT_CRNL" ->
                  IF c \in {CR, LF}
                  THEN CsvRun(Tail(s), "EAT_CRNL", fields, cur)
                  ELSE [ok |-> FALSE, row |-> fields]
           [] state = "START_RECORD" /\ c \in {CR, LF} ->
                  CsvRun(Tail(s), "EAT_CRNL", fields, cur)
           [] OTHER ->
                  IF c \in {CR, LF}
                  THEN CsvRun(Tail(s), "EAT_CRNL", Append(fields, cur), <<>>)
                  ELSE IF c = Comma
                  THEN CsvRun(Tail(s), "START_FIELD", Append(fields, cur), <<>>)
                  ELSE CsvRun(Tail(s), "IN_FIELD", fields, Append(cur, c))

\* csv.reader on one line: ok is FALSE where the reader raises csv.Error
\* (a character after a bare CR); row is the list of fields
ParseLine(line) == CsvRun(line, "START_RECORD", <<>>, <<>>)

RECURSIVE JoinFields(_)
JoinFields(row) ==
    IF row = <<>> THEN <<>>
    ELSE IF Len(row) = 1 THEN row[1]
    ELSE row[1] \o <<Comma>> \o JoinFields(Tail(row))

RECURSIVE JoinFieldsTrailing(_)
JoinFieldsTrailing(row) ==
    IF row = <<>> THEN <<>>
    ELSE row[1] \o <<Comma>> \o JoinFieldsTrailing(Tail(row))

WriteRowTrailingComma(row) == JoinFieldsTrailing(row) \o <<CR, LF>>

\* csv.writer(...).writerow: the fields joined by commas, then "\r\n"
WriteRow(row) == JoinFields(row) \o <<CR, LF>>

RECURSIVE WriteRows(_)
WriteRows(rows) ==
    IF rows = <<>> THEN <<>> ELSE WriteRow(Head(rows)) \o WriteRows(Tail(rows))

\* the record the sanitising reader yields for one binary line
SanitizeLine(line) == ParseLine(StripNul(line))

\* the sanitising pass raises on this line
LineRaises(line) == ~Decodable(StripNul(line)) \/ ~SanitizeLine(line).ok

\* csv.reader over a file opened 'r'
ReadCsv(b) == [i \in DOMAIN TextLines(b) |-> ParseLine(TextLines(b)[i]).row]

\* len(list(filter(None, line)))
Populated(line) == Len(SelectSeq(line, LAMBDA f : f # <<>>))

(***************************************************************************)
(* Inputs                                                                  *)
(***************************************************************************)
HeaderLine == <<"a", Comma, "b", Comma, "c">>

\* data lines: one field, two fields, a field and an empty one, an intact
\* row, a blank line, a row of empty fields, a line with a non-UTF-8 byte
DataLines ==
    { <<"x">>,
      <<"y", Comma, "z">>,
      <<"w", Comma>>,
      <<"x", Comma, "y", Comma, "z">>,
      <<>>,
      <<Comma, Comma>>,
      <<"x", BAD>> }

RECURSIVE EncodeLines(_)
EncodeLines(ls) ==
    IF ls = <<>> THEN <<>> ELSE Head(ls) \o <<LF>> \o EncodeLines(Tail(ls))

Contents ==
    { EncodeLines(<<HeaderLine>> \o ls) :
        ls \in UNION { [1..n -> DataLines] : n \in 0..MaxRows } }

\* the second file of the batch: a header alone; a spillover pair with NUL
\* bytes spread over the header and the rows; an intact row, a blank line and
\* a line that does not decode; a malformed row with no partner
SmallContents ==
    { EncodeLines(<<HeaderLine>>),
      EncodeLines(<< <<"a", Comma, NUL, "b", Comma, "c">>,
                     <<"x", NUL>>,
                     <<NUL, "y", Comma, NUL, NUL, "z">> >>),
      EncodeLines(<< HeaderLine, <<"x", Comma, "y", Comma, "z">>, <<>>, <<BAD>> >>),
      EncodeLines(<< HeaderLine, <<"y", Comma, "z">>, <<>> >>) }

Alphabet == {"x", Comma, LF, CR, NUL, BAD}

FreeBytes == UNION { [1..n -> Alphabet] : n \in 0..MaxBytes }

NoTmp == [exists |-> FALSE, data |-> <<>>]

(***************************************************************************)
(* preprocess: the sanitising pass                                         *)
(***************************************************************************)
Cur == Files[fi]

WriterEmitInPlace(f, bytes) ==
    /\ disk' = [disk EXCEPT ![f] = @ \o bytes]
    /\ UNCHANGED tmp

\* writer.writerow on fout, the file opened at fp + '_tmp'
WriterEmit(f, bytes) ==
    /\ tmp' = [tmp EXCEPT ![f].data = @ \o bytes]
    /\ UNCHANGED disk

\* with open(fp, 'rb') as fin, open(tmp, 'w') as fout
OpenSanitize(f) ==
    /\ fin' = disk[f]
    /\ tmp' = [tmp EXCEPT ![f] = [exists |-> TRUE, data |-> <<>>]]
    /\ nread' = 0
    /\ stages' = [stages EXCEPT ![f] = Append(@, "sanitize")]
    /\ pc' = "sanitize"

\* for fin in files: malformed = dict(); open both files
SanitizeOpen ==
    /\ pc = "loop"
    /\ fi < NFiles
    /\ fi' = fi + 1
    /\ malformed' = <<>>
    /\ OpenSanitize(Files[fi + 1])
    /\ UNCHANGED <<disk, length, wsrc, loaded>>

\* writer.writerows(reader): one line read, stripped, decoded, parsed, written
SanitizeRow ==
    /\ pc = "sanitize"
    /\ nread < Len(BinLines(fin))
    /\ LET line == BinLines(fin)[nread + 1] IN
       IF LineRaises(line)
       THEN /\ pc' = "raised"
            /\ UNCHANGED <<disk, tmp, nread>>
       ELSE /\ WriterEmit(Cur, WriteRow(SanitizeLine(line).row))
            /\ nread' = nread + 1
            /\ pc' = pc
    /\ UNCHANGED <<fi, fin, malformed, length, wsrc, stages, loaded>>

\* the with block ends; os.replace(tmp, fp)
SanitizeReplace ==
    /\ pc = "sanitize"
    /\ nread = Len(BinLines(fin))
    /\ disk' = [disk EXCEPT ![Cur] = tmp[Cur].data]
    /\ tmp' = [tmp EXCEPT ![Cur] = NoTmp]
    /\ pc' = "scan"
    /\ UNCHANGED <<fi, fin, nread, malformed, length, wsrc, stages, loaded>>

(***************************************************************************)
(* preprocess: the scan                                                    *)
(***************************************************************************)
\* check < length and check > 0
IsMalformedLine(line, n) == Populated(line) < n /\ Populated(line) > 0

\* the dict built by the loop over enumerate(reader, 2)
ScanMalformed(rows) ==
    [i \in {j \in 2..Len(rows) : IsMalformedLine(rows[j], Len(rows[1]))} |-> rows[i]]

NeedsFixAlways(m) == TRUE

\* len(malformed) > 0
NeedsFix(m) == DOMAIN m # {}

\* the scan of the sanitised file, and the call of fix_bad_line up to its
\* opening of the two files
Scan ==
    /\ pc = "scan"
    /\ LET rows == ReadCsv(disk[Cur]) IN
       IF rows = <<>>
       THEN /\ pc' = "raised"
            /\ stages' = [stages EXCEPT ![Cur] = Append(@, "scan")]
            /\ UNCHANGED <<tmp, fin, nread, malformed, length, wsrc>>
       ELSE /\ fin' = disk[Cur]
            /\ length' = Len(rows[1])
            /\ malformed' = ScanMalformed(rows)
            /\ IF NeedsFix(malformed')
               THEN /\ stages' = [stages EXCEPT ![Cur] = @ \o <<"scan", "repair">>]
                    /\ tmp' = [tmp EXCEPT ![Cur] = [exists |-> TRUE, data |-> <<>>]]
                    /\ nread' = 0
                    /\ wsrc' = <<>>
                    /\ pc' = "fix"
               ELSE /\ stages' = [stages EXCEPT ![Cur] = Append(@, "scan")]
                    /\ pc' = "loop"
                    /\ UNCHANGED <<tmp, nread, wsrc>>
    /\ UNCHANGED <<disk, fi, loaded>>

(***************************************************************************)
(* fix_bad_line                                                            *)
(***************************************************************************)
\* corrupt_map.get(k) is truthy: k is a key and its line is not empty
Truthy(corrupt_map, k) == k \in DOMAIN corrupt_map /\ Len(corrupt_map[k]) > 0

\* the first test reads idx + 1 for idx
FixBodyOffByOne(idx, line, corrupt_map, num_cols) ==
    IF (idx + 1) \notin DOMAIN corrupt_map /\ line # <<>>
    THEN << [src |-> <<idx>>, row |-> line] >>
    ELSE IF Len(line) = 0
    THEN <<>>
    ELSE IF Truthy(corrupt_map, idx) /\ Truthy(corrupt_map, idx + 1)
    THEN IF Len(corrupt_map[idx]) + Len(corrupt_map[idx + 1]) = num_cols
         THEN << [src |-> <<idx, idx + 1>>,
                  row |-> corrupt_map[idx] \o corrupt_map[idx + 1]] >>
         ELSE <<>>
    ELSE <<>>

\* the first test lacks "and line"
FixBodyKeepBlank(idx, line, corrupt_map, num_cols) ==
    IF idx \notin DOMAIN corrupt_map
    THEN << [src |-> <<idx>>, row |-> line] >>
    ELSE IF Truthy(corrupt_map, idx) /\ Truthy(corrupt_map, idx + 1)
    THEN IF Len(corrupt_map[idx]) + Len(corrupt_map[idx + 1]) = num_cols
         THEN << [src |-> <<idx, idx + 1>>,
                  row |-> corrupt_map[idx] \o corrupt_map[idx + 1]] >>
         ELSE <<>>
    ELSE <<>>

\* a line that cannot be merged is written as it is
FixBodyEmitAlone(idx, line, corrupt_map, num_cols) ==
    IF idx \notin DOMAIN corrupt_map /\ line # <<>>
    THEN << [src |-> <<idx>>, row |-> line] >>
    ELSE IF Len(line) = 0
    THEN <<>>
    ELSE IF Truthy(corrupt_map, idx) /\ Truthy(corrupt_map, idx + 1)
            /\ Len(corrupt_map[idx]) + Len(corrupt_map[idx + 1]) = num_cols
    THEN << [src |-> <<idx, idx + 1>>,
             row |-> corrupt_map[idx] \o corrupt_map[idx + 1]] >>
    ELSE << [src |-> <<idx>>, row |-> line] >>

\* One pass of the loop body: the rows written for line idx (none or one),
\* each with the input line numbers it was built from.
FixBody(idx, line, corrupt_map, num_cols) ==
    IF idx \notin DOMAIN corrupt_map /\ line # <<>>
    THEN << [src |-> <<idx>>, row |-> line] >>
    ELSE IF Len(line) = 0
    THEN <<>>
    ELSE IF Truthy(corrupt_map, idx) /\ Truthy(corrupt_map, idx + 1)
    THEN IF Len(corrupt_map[idx]) + Len(corrupt_map[idx + 1]) = num_cols
         THEN << [src |-> <<idx, idx + 1>>,
                  row |-> corrupt_map[idx] \o corrupt_map[idx + 1]] >>
         ELSE <<>>
    ELSE <<>>

\* for idx, line in enumerate(reader, 1)
FixRow ==
    /\ pc = "fix"
    /\ nread < Len(ReadCsv(fin))
    /\ LET idx == nread + 1
           w == FixBody(idx, ReadCsv(fin)[idx], malformed, length)
       IN  /\ WriterEmit(Cur, WriteRows([k \in DOMAIN w |-> w[k].row]))
           /\ wsrc' = wsrc \o [k \in DOMAIN w |-> w[k].src]
    /\ nread' = nread + 1
    /\ UNCHANGED <<fi, pc, fin, malformed, length, stages, loaded>>

\* the with block ends; os.replace(tmp, file_path); back in preprocess
FixReplace ==
    /\ pc = "fix"
    /\ nread = Len(ReadCsv(fin))
    /\ disk' = [disk EXCEPT ![Cur] = tmp[Cur].data]
    /\ tmp' = [tmp EXCEPT ![Cur] = NoTmp]
    /\ pc' = "loop"
    /\ UNCHANGED <<fi, fin, nread, malformed, length, wsrc, stages, loaded>>

(***************************************************************************)
(* etl                                                                     *)
(***************************************************************************)
\* preprocess(files) has returned
UploadReady == pc = "loop" /\ fi = NFiles

\* upload_to_db(files, conn)
Upload ==
    /\ UploadReady
    /\ loaded' = Files
    /\ pc' = "done"
    /\ UNCHANGED <<disk, tmp, fi, fin, nread, malformed, length, wsrc, stages>>

\* the sanitising pass applied again to its own output
Resanitize ==
    /\ pc = "scan"
    /\ Len(stages[Cur]) < MaxPasses
    /\ OpenSanitize(Cur)
    /\ UNCHANGED <<disk, fi, malformed, length, wsrc, loaded>>

InitRest ==
    /\ tmp = [f \in Range(Files) |-> NoTmp]
    /\ fi = 0
    /\ pc = "loop"
    /\ fin = <<>>
    /\ nread = 0
    /\ malformed = <<>>
    /\ length = 0
    /\ wsrc = <<>>
    /\ stages = [f \in Range(Files) |-> <<>>]
    /\ loaded = <<>>

Init ==
    /\ \E c1 \in Contents, c2 \in SmallContents :
           disk = [f \in Range(Files) |-> IF f = Files[1] THEN c1 ELSE c2]
    /\ InitRest

Next ==
    \/ SanitizeOpen
    \/ SanitizeRow
    \/ SanitizeReplace
    \/ Scan
    \/ FixRow
    \/ FixReplace
    \/ Upload

Spec == Init /\ [][Next]_vars

\* the sanitising pass alone, on one file of arbitrary bytes, applied
\* MaxPasses times
InitSan ==
    /\ \E c \in FreeBytes :
           disk = [f \in Range(Files) |-> IF f = Files[1] THEN c ELSE <<>>]
    /\ InitRest

SanOpenFirst == fi = 0 /\ SanitizeOpen

NextSan ==
    \/ SanOpenFirst
    \/ SanitizeRow
    \/ SanitizeReplace
    \/ Resanitize

SpecSan == InitSan /\ [][NextSan]_vars

(***************************************************************************)
(* Properties                                                              *)
(***************************************************************************)
\* the pipeline has finished for the current file
FileDone == pc = "loop" /\ fi >= 1

\* fix_bad_line has rewritten the current file
FixDone == FileDone /\ Last(stages[Cur]) = "repair"

\* the rows fix_bad_line read, and the rows of the file it left
InRows == ReadCsv(fin)

OutRows == ReadCsv(disk[Cur])

\* the output rows built from input line i
RowsFrom(i) == {k \in DOMAIN wsrc : i \in Range(wsrc[k])}

\* 0 < PopulatedCount < N
SpecMalformed(row) == Populated(row) > 0 /\ Populated(row) < length

\* C1: after a repair, every two adjacent malformed rows i, i+1 whose
\* populated counts sum to N give exactly one output row, of N fields, the
\* fields of row i followed by those of row i+1, and neither row appears alone.
C1_RepairCorrectness ==
    FixDone =>
        \A i \in 2..(Len(InRows) - 1) :
            (/\ SpecMalformed(InRows[i])
             /\ SpecMalformed(InRows[i + 1])
             /\ Populated(InRows[i]) + Populated(InRows[i + 1]) = length)
            => /\ Cardinality({k \in DOMAIN wsrc : wsrc[k] = <<i, i + 1>>}) = 1
               /\ \A k \in DOMAIN wsrc :
                      wsrc[k] = <<i, i + 1>>
                      => /\ OutRows[k] = InRows[i] \o InRows[i + 1]
                         /\ Len(OutRows[k]) = length
               /\ \A k \in DOMAIN wsrc : wsrc[k] # <<i>> /\ wsrc[k] # <<i + 1>>

\* C2: after a repair, the fields of every input row appear in at most one
\* output row.
C2_NoDuplication ==
    FixDone => \A i \in DOMAIN InRows : Cardinality(RowsFrom(i)) <= 1

\* C3 (as claimed): once the pipeline has finished with a file, it holds no
\* data row whose populated count is 0.
C3_EmptyRowsDropped ==
    FileDone => \A k \in 2..Len(OutRows) : Populated(OutRows[k]) > 0

\* C3 (amended): once fix_bad_line has rewritten a file, it holds no blank
\* line, that is no row of zero fields.
C3_NoBlankLineAfterRepair ==
    FixDone => \A k \in DOMAIN OutRows : OutRows[k] # <<>>

C3_Witness ==
    FixDone /\ \E i \in DOMAIN InRows : InRows[i] = <<>>

\* the rows fix_bad_line must copy: not in the malformed index, not empty
PassRows == {i \in DOMAIN InRows : i \notin DOMAIN malformed /\ Populated(InRows[i]) > 0}

\* C4: after a repair, every row (the header included) that is not in the
\* malformed index and is not empty is in the output once, with its original
\* fields, and these rows keep their relative order.
C4_PassThrough ==
    FixDone =>
        /\ Len(OutRows) = Len(wsrc)
        /\ \A i \in PassRows :
               /\ Cardinality({k \in DOMAIN wsrc : wsrc[k] = <<i>>}) = 1
               /\ \A k \in DOMAIN wsrc : wsrc[k] = <<i>> => OutRows[k] = InRows[i]
        /\ \A i, j \in PassRows :
               \A k, l \in DOMAIN wsrc :
                   (i < j /\ wsrc[k] = <<i>> /\ wsrc[l] = <<j>>) => k < l

C4_Witness ==
    FixDone /\ \E i, j \in PassRows : i < j /\ \E m \in DOMAIN malformed : i < m /\ m < j

\* lines i and i+1 pass the checks fix_bad_line makes before it merges them
Merges(i) ==
    /\ i \in DOMAIN malformed
    /\ (i + 1) \in DOMAIN malformed
    /\ Len(InRows[i]) + Len(InRows[i + 1]) = length

C6_FailureIsolation ==
    pc = "raised" => \A f \in Range(Files) : stages[f] # <<>>

\* the complete output of the sanitising pass on content b
SanitizeOut(b) ==
    WriteRows([i \in DOMAIN BinLines(b) |-> SanitizeLine(BinLines(b)[i]).row])

RECURSIVE FixOutFrom(_, _)
FixOutFrom(rows, idx) ==
    IF idx > Len(rows) THEN <<>>
    ELSE LET w == FixBody(idx, rows[idx], malformed, length)
         IN  WriteRows([k \in DOMAIN w |-> w[k].row]) \o FixOutFrom(rows, idx + 1)

\* C7: the content at the path of the file being processed is the complete
\* content before the running stage until the stage replaces it, and the
\* complete output of the stage afterwards; after a failure of the sanitising
\* pass it is still the content the pass opened.
C7_AtomicReplace ==
    fi >= 1 =>
        /\ pc \in {"sanitize", "fix"} => disk[Cur] = fin
        /\ pc = "scan" => disk[Cur] = SanitizeOut(fin)
        /\ (pc = "raised" /\ Last(stages[Cur]) = "sanitize") => disk[Cur] = fin
        /\ (FileDone /\ ~FixDone) => disk[Cur] = fin
        /\ FixDone => disk[Cur] = FixOutFrom(InRows, 1)

C7_Witness ==
    /\ pc = "raised"
    /\ fi >= 1
    /\ Last(stages[Cur]) = "sanitize"
    /\ tmp[Cur].exists
    /\ tmp[Cur].data # <<>>

RECURSIVE WithoutNul(_)
WithoutNul(b) ==
    IF b = <<>> THEN <<>>
    ELSE IF Head(b) = NUL THEN WithoutNul(Tail(b))
    ELSE <<Head(b)>> \o WithoutNul(Tail(b))

\* the sanitising pass has completed on the current file
SanDone == pc = "scan"

\* C8 (as claimed): after the sanitising pass the file is its input with
\* exactly the NUL bytes deleted.
C8_PureSubtraction ==
    SanDone => disk[Cur] = WithoutNul(fin)

\* C8 (amended): after the sanitising pass the file holds no NUL byte and
\* reads, as CSV, as one record for each line of its input: the fields of
\* that line with its NUL bytes deleted.
C8_RecordsPreserved ==
    SanDone =>
        /\ NUL \notin Range(disk[Cur])
        /\ ReadCsv(disk[Cur]) =
               [i \in DOMAIN BinLines(fin) |->
                    ParseLine(WithoutNul(BinLines(fin)[i])).row]

C8_Witness ==
    /\ SanDone
    /\ NUL \in Range(fin)
    /\ Comma \in Range(fin)
    /\ Len(ReadCsv(disk[Cur])) >= 2

\* C9 (as claimed): the sanitising pass leaves a file without NUL bytes
\* byte-identical.
C9_NoOpOnClean ==
    (SanDone /\ NUL \notin Range(fin)) => disk[Cur] = fin

\* C9 (amended): the sanitising pass leaves byte-identical a file that an
\* earlier sanitising pass wrote.
C9_SecondPassIdentity ==
    (SanDone /\ Len(stages[Cur]) >= 2) => disk[Cur] = fin

C9_Witness ==
    SanDone /\ Len(stages[Cur]) >= 2 /\ Comma \in Range(fin)

\* the pipeline has finished for file number i
Finished(i) == i < fi \/ (i = fi /\ pc \in {"loop", "done"})

\* C10: the stages of a file run in the order sanitise, scan, repair; the
\* repair runs exactly when the scan found a malformed row, and otherwise the
\* file stays as the scan read it; nothing is handed to the loader before the
\* pipeline has finished for every file.
C10_StageOrder ==
    /\ \A f \in Range(Files) :
           stages[f] \in { <<>>, <<"sanitize">>, <<"sanitize", "scan">>,
                           <<"sanitize", "scan", "repair">> }
    /\ \A i \in DOMAIN Files : Finished(i) => Len(stages[Files[i]]) >= 2
    /\ (fi >= 1 /\ Finished(fi)) =>
           ("repair" \in Range(stages[Cur]) <=> DOMAIN malformed # {})
    /\ pc = "fix" => DOMAIN malformed # {}
    /\ (fi >= 1 /\ Finished(fi) /\ Len(stages[Cur]) = 2) => disk[Cur] = fin
    /\ loaded # <<>> => \A i \in DOMAIN Files : Finished(i)

C10_Witness ==
    /\ pc = "done"
    /\ loaded = Files
    /\ \E f, g \in Range(Files) : Len(stages[f]) = 3 /\ Len(stages[g]) = 2

====
